---- MODULE Spec2Model ----
\* A model of the packet firewall: the rule loader and the packet classifier
\* of filter.c, and the dispatcher thread and command loop of firewall.c.
\*
\* A 32-bit unsigned value is kept as a pair <<hi, lo>> of 16-bit halves
\* (value = hi * 65536 + lo), so that no intermediate number leaves the
\* range of the checker's integers while shifts and masks keep their width.
EXTENDS Integers, Sequences, FiniteSets, TLC

VARIABLES
  \* ---- ConfigureFilter (filter.c) ----
  cfgFile,      \* the configuration file: whether fopen finds it, and its lines
  cfgPos,       \* number of lines fgets has delivered so far
  cfgRet,       \* "running", "true" or "false": ConfigureFilter's return
  fltCfg,       \* the FilterConfig structure
  \* ---- the LOCAL_NET mask loop (filter.c 166-173) ----
  temp,         \* the prefix length sscanf stored
  i,            \* the loop counter
  mask,         \* the mask being built
  lnPc,         \* "loop" while the for loop runs, else "idle"
  \* ---- FilterPacket applied to one packet ----
  packet,       \* the bytes of the packet under examination
  verdict,      \* "none", or FilterPacket's result: "allow" (true), "block" (false)
  nCalls,       \* number of calls of FilterPacket made on this packet
  \* ---- main (firewall.c) ----
  mainPc,       \* where main is: "configure", "create", "loop", "destroy",
                \* "return", "exited"
  exitStatus,   \* "none" while the process runs, then main's return value
  Mode,         \* the volatile FilterMode
  nCmds,        \* number of commands scanf has delivered
  userInput,    \* the unsigned int scanf stored last, -1 before the first
  filterFreed,  \* DestroyFilter has freed the filter
  \* ---- FilterThread (firewall.c) ----
  thPc,         \* where the thread is: "notcreated", "open", "while",
                \* "readlen", "readpkt", "test1", "test2", "writelen",
                \* "writepkt", "flush", "returned", "cancelled"
  cancelReq,    \* pthread_cancel has been called on the thread
  InPipe,       \* "NULL" or "open"
  OutPipe,      \* "NULL" or "open"
  eof,          \* the end-of-file indicator of InPipe
  packetLength, \* the int the first fread fills
  nRead,        \* number of records read completely
  outBuf,       \* what was written to OutPipe and not yet flushed
  outPipe,      \* what a reader of FromFirewall can see
  \* ---- bookkeeping about the current pass of the thread's loop ----
  readOk,       \* both freads of this pass delivered all they were asked for
  iterModes,    \* the values Mode has held since this pass began
  iterOut,      \* Len(outPipe) when this pass began
  iterDone,     \* this pass has run to its end
  inRec         \* the record the input pipe delivered last: <<length, bytes>>

cfgVars == <<cfgFile, cfgPos, cfgRet, fltCfg>>
maskVars == <<temp, i, mask, lnPc>>
pktVars == <<packet, verdict, nCalls>>
mainVars == <<mainPc, exitStatus, Mode, nCmds, userInput, filterFreed>>
thVars == <<thPc, cancelReq, InPipe, OutPipe, eof, packetLength, nRead, outBuf, outPipe>>
iterVars == <<readOk, iterModes, iterOut, iterDone, inRec>>
sysVars == <<mainVars, thVars, iterVars>>
vars == <<cfgVars, maskVars, pktVars, sysVars>>

\* ------------------------------------------------------------------
\* Bounds of the model
\* ------------------------------------------------------------------
MaxLines == 3
MaxRecords == 2
MaxCmds == 2

\* ------------------------------------------------------------------
\* 32-bit unsigned arithmetic on <<hi, lo>> pairs
\* ------------------------------------------------------------------
TopBit == 32768

\* bitwise and of two n-bit numbers, n a power of two, by halves
RECURSIVE And16(_, _, _)
And16(a, b, n) ==
  IF n = 1 THEN a * b
  ELSE LET h == n \div 2
           p == 2 ^ h
       IN  And16(a % p, b % p, h) + p * And16(a \div p, b \div p, h)

\* the C operator & on two unsigned ints
And32(x, y) == <<And16(x[1], y[1], 16), And16(x[2], y[2], 16)>>

\* mask >> 1 on an unsigned int: the low bit of hi moves into lo
Shr1(x) == <<x[1] \div 2, (x[1] % 2) * TopBit + (x[2] \div 2)>>

\* mask |= 0x80000000
OrTop(x) == <<IF x[1] >= TopBit THEN x[1] ELSE x[1] + TopBit, x[2]>>

Zero32 == <<0, 0>>

\* ------------------------------------------------------------------
\* pktUtility (library of the repository; only its callers are in src/)
\* ------------------------------------------------------------------
IP_PROTOCOL_ICMP == 1
IP_PROTOCOL_TCP == 6
ICMP_TYPE_ECHO_REQ == 8

\* four octets a.b.c.d to one unsigned int, a the most significant
ConvertIpUIntOctetsToUInt(o) == <<o[1] * 256 + o[2], o[3] * 256 + o[4]>>

\* fixed-offset parsing of a 20-byte IPv4 header (byte k of the packet is
\* element k + 1 of the sequence)
ExtractSrcAddrFromIpHeader(pkt) ==
  <<pkt[13] * 256 + pkt[14], pkt[15] * 256 + pkt[16]>>

ExtractDstAddrFromIpHeader(pkt) ==
  <<pkt[17] * 256 + pkt[18], pkt[19] * 256 + pkt[20]>>

ExtractIpProtocol(pkt) == pkt[10]

ExtractIcmpType(pkt) == pkt[21]

ExtractTcpDstPort(pkt) == pkt[23] * 256 + pkt[24]

\* ------------------------------------------------------------------
\* filter.c: the filter configuration
\* ------------------------------------------------------------------
CreateFilter ==
  [ localIpAddr |-> Zero32,
    localMask |-> Zero32,
    blockInboundEchoReq |-> FALSE,
    numBlockedInboundTcpPorts |-> 0,
    blockedInboundTcpPorts |-> <<>>,
    numBlockedIpAddresses |-> 0,
    blockedIpAddresses |-> <<>> ]

AddBlockedIpAddress(cfg, ipAddr) ==
  [cfg EXCEPT !.blockedIpAddresses = Append(@, ipAddr),
              !.numBlockedIpAddresses = @ + 1]

AddBlockedInboundTcpPort(cfg, port) ==
  [cfg EXCEPT !.blockedInboundTcpPorts = Append(@, port),
              !.numBlockedInboundTcpPorts = @ + 1]

\* (mutant) the two statements of the loop body in the other order
MaskStep_OrThenShift(m) == Shr1(OrTop(m))

\* one pass of the loop body: mask = mask >> 1; mask |= 0x80000000
MaskStep(m) == OrTop(Shr1(m))

\* the octets strtok/sscanf read from the rest of the line
ParseRemainderOfStringForIp(line) == line.ip

\* (mutant) an unrecognised line is skipped like an empty one
ConfigLine_SkipsUnknown(cfg, line) ==
  CASE line.kw = "LOCAL_NET" ->
         [cfg |-> [cfg EXCEPT
                     !.localIpAddr =
                        ConvertIpUIntOctetsToUInt(ParseRemainderOfStringForIp(line))],
          go |-> TRUE]
    [] line.kw = "BLOCK_INBOUND_TCP_PORT" ->
         [cfg |-> AddBlockedInboundTcpPort(cfg, line.num), go |-> TRUE]
    [] line.kw = "BLOCK_PING_REQ" ->
         [cfg |-> [cfg EXCEPT !.blockInboundEchoReq = TRUE], go |-> TRUE]
    [] line.kw = "BLOCK_IP_ADDR" ->
         [cfg |-> AddBlockedIpAddress(
                    cfg, ConvertIpUIntOctetsToUInt(ParseRemainderOfStringForIp(line))),
          go |-> TRUE]
    [] OTHER ->
         [cfg |-> cfg, go |-> TRUE]

\* The body of the while loop for one line that fgets delivered: the
\* configuration after the line, and whether the loop goes on (FALSE: the
\* function returned false at this line). For LOCAL_NET the mask is built
\* by the for loop that follows (MaskPass, MaskStore).
ConfigLine(cfg, line) ==
  CASE line.kw = "" ->
         [cfg |-> cfg, go |-> TRUE]
    [] line.kw = "LOCAL_NET" ->
         [cfg |-> [cfg EXCEPT
                     !.localIpAddr =
                        ConvertIpUIntOctetsToUInt(ParseRemainderOfStringForIp(line))],
          go |-> TRUE]
    [] line.kw = "BLOCK_INBOUND_TCP_PORT" ->
         [cfg |-> AddBlockedInboundTcpPort(cfg, line.num), go |-> TRUE]
    [] line.kw = "BLOCK_PING_REQ" ->
         [cfg |-> [cfg EXCEPT !.blockInboundEchoReq = TRUE], go |-> TRUE]
    [] line.kw = "BLOCK_IP_ADDR" ->
         [cfg |-> AddBlockedIpAddress(
                    cfg, ConvertIpUIntOctetsToUInt(ParseRemainderOfStringForIp(line))),
          go |-> TRUE]
    [] OTHER ->
         [cfg |-> cfg, go |-> FALSE]

\* (mutant) the test after the loop left out
ConfigEnd_NoTest(cfg) == TRUE

\* the test after the loop: LOCAL_NET must have been set
ConfigEnd(cfg) == cfg.localIpAddr # Zero32

\* ------------------------------------------------------------------
\* filter.c: the classifier
\* ------------------------------------------------------------------
RECURSIVE BlockIpAddressFrom(_, _, _)
BlockIpAddressFrom(cfg, addr, k) ==
  IF k > cfg.numBlockedIpAddresses THEN FALSE
  ELSE IF addr = cfg.blockedIpAddresses[k] THEN TRUE
  ELSE BlockIpAddressFrom(cfg, addr, k + 1)

BlockIpAddress(cfg, addr) == BlockIpAddressFrom(cfg, addr, 1)

RECURSIVE BlockInboundTcpPortFrom(_, _, _)
BlockInboundTcpPortFrom(cfg, port, k) ==
  IF k > cfg.numBlockedInboundTcpPorts THEN FALSE
  ELSE IF port = cfg.blockedInboundTcpPorts[k] THEN TRUE
  ELSE BlockInboundTcpPortFrom(cfg, port, k + 1)

\* (mutant) the scan starts one entry too far
BlockInboundTcpPort_SkipsFirst(cfg, port) == BlockInboundTcpPortFrom(cfg, port, 2)

BlockInboundTcpPort(cfg, port) == BlockInboundTcpPortFrom(cfg, port, 1)

\* (mutant) the source address is not looked at
PacketIsInbound_DstOnly(cfg, srcIpAddr, dstIpAddr) ==
  And32(dstIpAddr, cfg.localMask) = And32(cfg.localIpAddr, cfg.localMask)

PacketIsInbound(cfg, srcIpAddr, dstIpAddr) ==
  LET localIpAddrMasked == And32(cfg.localIpAddr, cfg.localMask)
      dstIpAddrMasked == And32(dstIpAddr, cfg.localMask)
      srcIpAddrMasked == And32(srcIpAddr, cfg.localMask)
  IN  (dstIpAddrMasked = localIpAddrMasked) /\ (srcIpAddrMasked # localIpAddrMasked)

\* (mutant) the destination address is not tested against the blocked list
FilterPacket_SrcOnly(cfg, pkt) ==
  LET srcIpAddr == ExtractSrcAddrFromIpHeader(pkt)
      dstIpAddr == ExtractDstAddrFromIpHeader(pkt)
      IpProtocol == ExtractIpProtocol(pkt)
  IN  IF BlockIpAddress(cfg, srcIpAddr) THEN FALSE
      ELSE IF ~PacketIsInbound(cfg, srcIpAddr, dstIpAddr) THEN TRUE
      ELSE IF IpProtocol = IP_PROTOCOL_ICMP
        THEN ~(cfg.blockInboundEchoReq /\ ExtractIcmpType(pkt) = ICMP_TYPE_ECHO_REQ)
      ELSE IF IpProtocol = IP_PROTOCOL_TCP
        THEN ~BlockInboundTcpPort(cfg, ExtractTcpDstPort(pkt))
      ELSE TRUE

\* (mutant) the ICMP type is not tested
FilterPacket_AnyIcmpType(cfg, pkt) ==
  LET srcIpAddr == ExtractSrcAddrFromIpHeader(pkt)
      dstIpAddr == ExtractDstAddrFromIpHeader(pkt)
      IpProtocol == ExtractIpProtocol(pkt)
  IN  IF BlockIpAddress(cfg, srcIpAddr) THEN FALSE
      ELSE IF BlockIpAddress(cfg, dstIpAddr) THEN FALSE
      ELSE IF ~PacketIsInbound(cfg, srcIpAddr, dstIpAddr) THEN TRUE
      ELSE IF IpProtocol = IP_PROTOCOL_ICMP
        THEN ~cfg.blockInboundEchoReq
      ELSE IF IpProtocol = IP_PROTOCOL_TCP
        THEN ~BlockInboundTcpPort(cfg, ExtractTcpDstPort(pkt))
      ELSE TRUE

\* (mutant) the default case of the switch returns false
FilterPacket_DefaultBlocks(cfg, pkt) ==
  LET srcIpAddr == ExtractSrcAddrFromIpHeader(pkt)
      dstIpAddr == ExtractDstAddrFromIpHeader(pkt)
      IpProtocol == ExtractIpProtocol(pkt)
  IN  IF BlockIpAddress(cfg, srcIpAddr) THEN FALSE
      ELSE IF BlockIpAddress(cfg, dstIpAddr) THEN FALSE
      ELSE IF ~PacketIsInbound(cfg, srcIpAddr, dstIpAddr) THEN TRUE
      ELSE IF IpProtocol = IP_PROTOCOL_ICMP
        THEN ~(cfg.blockInboundEchoReq /\ ExtractIcmpType(pkt) = ICMP_TYPE_ECHO_REQ)
      ELSE IF IpProtocol = IP_PROTOCOL_TCP
        THEN ~BlockInboundTcpPort(cfg, ExtractTcpDstPort(pkt))
      ELSE FALSE

\* TRUE: the packet is allowed; FALSE: it is blocked
FilterPacket(cfg, pkt) ==
  LET srcIpAddr == ExtractSrcAddrFromIpHeader(pkt)
      dstIpAddr == ExtractDstAddrFromIpHeader(pkt)
      IpProtocol == ExtractIpProtocol(pkt)
  IN  IF BlockIpAddress(cfg, srcIpAddr) THEN FALSE
      ELSE IF BlockIpAddress(cfg, dstIpAddr) THEN FALSE
      ELSE IF ~PacketIsInbound(cfg, srcIpAddr, dstIpAddr) THEN TRUE
      ELSE IF IpProtocol = IP_PROTOCOL_ICMP
        THEN ~(cfg.blockInboundEchoReq /\ ExtractIcmpType(pkt) = ICMP_TYPE_ECHO_REQ)
      ELSE IF IpProtocol = IP_PROTOCOL_TCP
        THEN ~BlockInboundTcpPort(cfg, ExtractTcpDstPort(pkt))
      ELSE TRUE

\* ------------------------------------------------------------------
\* Inputs: configuration lines, configuration files, packets
\* ------------------------------------------------------------------
NoIp == <<0, 0, 0, 0>>
Line(kw, ip, num) == [kw |-> kw, ip |-> ip, num |-> num]

Lines ==
  { Line("LOCAL_NET", <<192, 168, 1, 0>>, 24),
    Line("LOCAL_NET", NoIp, 0),
    Line("BLOCK_INBOUND_TCP_PORT", NoIp, 22),
    Line("BLOCK_PING_REQ", NoIp, 0),
    Line("BLOCK_IP_ADDR", <<10, 0, 0, 5>>, 0),
    Line("", NoIp, 0),
    Line("ALLOW_ALL", NoIp, 0) }

Keywords ==
  {"LOCAL_NET", "BLOCK_INBOUND_TCP_PORT", "BLOCK_PING_REQ", "BLOCK_IP_ADDR"}

File(found, lines) == [found |-> found, lines |-> lines]
NoFile == File(FALSE, <<>>)
Files == { File(TRUE, l) : l \in UNION { [1..n -> Lines] : n \in 0..MaxLines } }

PktLen == 24

\* a 24-byte datagram: 20-byte IPv4 header and the first four transport bytes
MkPacket(src, dst, proto, b20, port) ==
  [k \in 1..PktLen |->
     CASE k = 1 -> 69
       [] k = 10 -> proto
       [] k \in 13..16 -> src[k - 12]
       [] k \in 17..20 -> dst[k - 16]
       [] k = 21 -> b20
       [] k = 23 -> port \div 256
       [] k = 24 -> port % 256
       [] OTHER -> 0]

SrcAddrs == { <<8, 8, 8, 8>>, <<192, 168, 1, 7>>, <<10, 0, 0, 5>> }
DstAddrs == { <<192, 168, 1, 5>>, <<8, 8, 4, 4>>, <<10, 0, 0, 5>> }
Protocols == { IP_PROTOCOL_ICMP, IP_PROTOCOL_TCP, 17 }

\* the byte at the ICMP type offset and the number at the TCP port offset
Transports == { <<ICMP_TYPE_ECHO_REQ, 22>>, <<ICMP_TYPE_ECHO_REQ, 80>>, <<0, 80>> }

Packets ==
  { MkPacket(s, d, p, t[1], t[2]) :
      s \in SrcAddrs, d \in DstAddrs, p \in Protocols, t \in Transports }

NoPacket == <<>>

\* no record has been delivered yet
NoRecord == <<0, NoPacket>>

\* ------------------------------------------------------------------
\* Specification SpecLoad: ConfigureFilter run line by line on one file,
\* then FilterPacket applied to packets with the resulting configuration
\* ------------------------------------------------------------------
MaskIdle == temp = 0 /\ i = 0 /\ mask = Zero32 /\ lnPc = "idle"

\* the process as main finds it: Mode is MODE_FILTER, both pipes are NULL,
\* no thread exists
SysStart ==
  /\ mainPc = "configure"
  /\ exitStatus = "none"
  /\ Mode = "MODE_FILTER"
  /\ nCmds = 0
  /\ userInput = -1
  /\ filterFreed = FALSE
  /\ thPc = "notcreated"
  /\ cancelReq = FALSE
  /\ InPipe = "NULL"
  /\ OutPipe = "NULL"
  /\ eof = FALSE
  /\ packetLength = 0
  /\ nRead = 0
  /\ outBuf = <<>>
  /\ outPipe = <<>>
  /\ readOk = FALSE
  /\ iterModes = {}
  /\ iterOut = 0
  /\ iterDone = FALSE
  /\ inRec = NoRecord

InitLoad ==
  /\ cfgFile \in {NoFile} \cup Files
  /\ cfgPos = 0
  /\ cfgRet = "running"
  /\ fltCfg = CreateFilter
  /\ packet = NoPacket
  /\ verdict = "none"
  /\ nCalls = 0
  /\ MaskIdle
  /\ SysStart

\* fopen returned NULL: return false
OpenFails ==
  /\ cfgRet = "running"
  /\ ~cfgFile.found
  /\ cfgRet' = "false"
  /\ UNCHANGED <<cfgFile, cfgPos, fltCfg, maskVars, pktVars, sysVars>>

\* fgets delivered a line: one pass of the while loop (for LOCAL_NET, up
\* to the start of the for loop that builds the mask)
ReadLine ==
  /\ cfgRet = "running"
  /\ lnPc = "idle"
  /\ cfgFile.found
  /\ cfgPos < Len(cfgFile.lines)
  /\ LET line == cfgFile.lines[cfgPos + 1]
         r == ConfigLine(fltCfg, line)
     IN  /\ cfgPos' = cfgPos + 1
         /\ fltCfg' = r.cfg
         /\ cfgRet' = IF r.go THEN "running" ELSE "false"
         /\ IF line.kw = "LOCAL_NET"
              THEN temp' = line.num /\ i' = 0 /\ mask' = Zero32 /\ lnPc' = "loop"
              ELSE UNCHANGED maskVars
  /\ UNCHANGED <<cfgFile, pktVars, sysVars>>

\* for(i = 0; i < temp; i++): one pass
MaskPass ==
  /\ lnPc = "loop"
  /\ i < temp
  /\ mask' = MaskStep(mask)
  /\ i' = i + 1
  /\ UNCHANGED <<temp, lnPc, cfgVars, pktVars, sysVars>>

\* the loop is left: fltCfg->localMask = mask
MaskStore ==
  /\ lnPc = "loop"
  /\ ~(i < temp)
  /\ fltCfg' = [fltCfg EXCEPT !.localMask = mask]
  /\ lnPc' = "idle"
  /\ UNCHANGED <<temp, i, mask, cfgFile, cfgPos, cfgRet, pktVars, sysVars>>

\* fgets returned NULL: leave the loop, test localIpAddr, return
EndOfFile ==
  /\ cfgRet = "running"
  /\ lnPc = "idle"
  /\ cfgFile.found
  /\ cfgPos = Len(cfgFile.lines)
  /\ cfgRet' = IF ConfigEnd(fltCfg) THEN "true" ELSE "false"
  /\ UNCHANGED <<cfgFile, cfgPos, fltCfg, maskVars, pktVars, sysVars>>

\* (mutant) a FilterPacket that clears the echo-request flag and forgets the
\* blocked ports once it has answered
Classify_ConsumesRule ==
  /\ cfgRet # "running"
  /\ verdict = "none"
  /\ \E pkt \in Packets :
       /\ packet' = pkt
       /\ verdict' = IF FilterPacket(fltCfg, pkt) THEN "allow" ELSE "block"
  /\ nCalls' = 1
  /\ fltCfg' = [fltCfg EXCEPT !.blockInboundEchoReq = FALSE,
                              !.numBlockedInboundTcpPorts = 0]
  /\ UNCHANGED <<cfgFile, cfgPos, cfgRet, maskVars, sysVars>>

\* FilterPacket called on a packet with the configuration as loaded
Classify ==
  /\ cfgRet # "running"
  /\ verdict = "none"
  /\ \E pkt \in Packets :
       /\ packet' = pkt
       /\ verdict' = IF FilterPacket(fltCfg, pkt) THEN "allow" ELSE "block"
  /\ nCalls' = 1
  /\ UNCHANGED <<cfgVars, maskVars, sysVars>>

\* FilterPacket called once more on the same packet and configuration
ClassifyAgain ==
  /\ nCalls = 1
  /\ verdict' = IF FilterPacket(fltCfg, packet) THEN "allow" ELSE "block"
  /\ nCalls' = 2
  /\ UNCHANGED <<packet, cfgVars, maskVars, sysVars>>

NextLoad == OpenFails \/ ReadLine \/ MaskPass \/ MaskStore \/ EndOfFile \/ Classify

SpecLoad == InitLoad /\ [][NextLoad]_vars

\* ------------------------------------------------------------------
\* Specification SpecPure: FilterPacket called twice on a packet, with the
\* configuration given directly
\* ------------------------------------------------------------------
\* files that ConfigureFilter has read to their end, each with the
\* configuration it left: with and without a local network, with and without
\* the flag, with zero to two blocked ports and zero or one blocked address
PureLoads ==
  { [ file |-> File(TRUE,
                 (IF net THEN <<Line("LOCAL_NET", <<192, 168, 1, 0>>, 24)>> ELSE <<>>)
                 \o (IF flag THEN <<Line("BLOCK_PING_REQ", NoIp, 0)>> ELSE <<>>)
                 \o [k \in 1..Len(ports) |-> Line("BLOCK_INBOUND_TCP_PORT", NoIp, ports[k])]
                 \o [k \in 1..Len(addrs) |-> Line("BLOCK_IP_ADDR", addrs[k], 0)]),
      cfg |-> [ localIpAddr |->
                  IF net THEN ConvertIpUIntOctetsToUInt(<<192, 168, 1, 0>>) ELSE Zero32,
                localMask |-> IF net THEN <<65535, 65280>> ELSE Zero32,
                blockInboundEchoReq |-> flag,
                numBlockedInboundTcpPorts |-> Len(ports),
                blockedInboundTcpPorts |-> ports,
                numBlockedIpAddresses |-> Len(addrs),
                blockedIpAddresses |->
                  [k \in 1..Len(addrs) |-> ConvertIpUIntOctetsToUInt(addrs[k])] ] ] :
      net \in BOOLEAN,
      flag \in BOOLEAN,
      ports \in { <<>>, <<22>>, <<80, 22>> },
      addrs \in { <<>>, <<(<<10, 0, 0, 5>>)>> } }

InitPure ==
  /\ \E ld \in PureLoads :
       /\ cfgFile = ld.file
       /\ cfgPos = Len(ld.file.lines)
       /\ cfgRet = IF ConfigEnd(ld.cfg) THEN "true" ELSE "false"
       /\ fltCfg = ld.cfg
       /\ temp = IF ld.cfg.localMask = Zero32 THEN 0 ELSE 24
       /\ i = temp
       /\ mask = ld.cfg.localMask
       /\ lnPc = "idle"
  /\ packet = NoPacket
  /\ verdict = "none"
  /\ nCalls = 0
  /\ SysStart

NextPure == Classify \/ ClassifyAgain

SpecPure == InitPure /\ [][NextPure]_vars

\* ------------------------------------------------------------------
\* Specification SpecMask: the for loop of the LOCAL_NET branch entered with
\* every prefix length, pass by pass
\* ------------------------------------------------------------------
InitMask ==
  /\ cfgFile = NoFile
  /\ cfgPos = 0
  /\ cfgRet = "running"
  /\ fltCfg = CreateFilter
  /\ packet = NoPacket
  /\ verdict = "none"
  /\ nCalls = 0
  /\ temp \in 0..32
  /\ i = 0
  /\ mask = Zero32
  /\ lnPc = "loop"
  /\ SysStart

NextMask == MaskPass \/ MaskStore

SpecMask == InitMask /\ [][NextMask]_vars

\* ------------------------------------------------------------------
\* Specification Spec: main and FilterThread of firewall.c
\* ------------------------------------------------------------------
L_Net == Line("LOCAL_NET", <<192, 168, 1, 0>>, 24)
L_Ping == Line("BLOCK_PING_REQ", NoIp, 0)
L_Port == Line("BLOCK_INBOUND_TCP_PORT", NoIp, 22)
L_Addr == Line("BLOCK_IP_ADDR", <<10, 0, 0, 5>>, 0)
L_Unknown == Line("ALLOW_ALL", NoIp, 0)

\* the configuration files main is run with
SysFiles ==
  { NoFile,
    File(TRUE, <<L_Net, L_Ping, L_Port, L_Addr>>),
    File(TRUE, <<L_Ping, L_Addr>>),
    File(TRUE, <<L_Net, L_Unknown, L_Ping>>) }

\* the datagrams the input pipe delivers
SysPackets ==
  { MkPacket(<<8, 8, 8, 8>>, <<192, 168, 1, 5>>, IP_PROTOCOL_ICMP, ICMP_TYPE_ECHO_REQ, 0),
    MkPacket(<<8, 8, 8, 8>>, <<192, 168, 1, 5>>, IP_PROTOCOL_TCP, 0, 80),
    MkPacket(<<10, 0, 0, 5>>, <<8, 8, 4, 4>>, IP_PROTOCOL_TCP, 0, 80) }

\* the length of the fixed buffer of the earlier FilterThread
Capacity == 2048

\* the length prefixes the input pipe delivers
RecordLengths == {PktLen, Capacity + 1}

\* the records the input pipe delivers, each <<length, bytes>>; of a record
\* longer than PktLen only the first PktLen bytes, the headers, are itemised
SysRecords ==
  { <<PktLen, pkt>> : pkt \in SysPackets } \cup
  { <<Capacity + 1,
      MkPacket(<<8, 8, 8, 8>>, <<192, 168, 1, 5>>, IP_PROTOCOL_TCP, 0, 80)>> }

\* what an int that no fread filled may hold
GarbageLengths == {0, PktLen}

\* n bytes of buf as they travel through OutPipe: their number, and the
\* itemised ones among them
Payload(buf, n) ==
  <<"pkt", n, SubSeq(buf, 1, IF n < Len(buf) THEN n ELSE Len(buf))>>

Modes == {"MODE_BLOCK_ALL", "MODE_ALLOW_ALL", "MODE_FILTER"}

\* the numbers the user types: the four cases of the switch, and 4 for
\* every number that falls to default
Inputs == 0..4

Init ==
  /\ cfgFile \in SysFiles
  /\ cfgPos = 0
  /\ cfgRet = "running"
  /\ fltCfg = CreateFilter
  /\ packet = NoPacket
  /\ verdict = "none"
  /\ nCalls = 0
  /\ MaskIdle
  /\ SysStart

\* ---- main ----

\* ConfigureFilter has returned; main does not look at what it returned
main_Configured ==
  /\ mainPc = "configure"
  /\ cfgRet # "running"
  /\ mainPc' = "create"
  /\ UNCHANGED <<exitStatus, Mode, nCmds, userInput, filterFreed, thVars, iterVars,
                 cfgVars, maskVars, pktVars>>

\* pthread_create(&filterThread, NULL, FilterThread, filter)
main_CreateThread ==
  /\ mainPc = "create"
  /\ mainPc' = "loop"
  /\ thPc' = "open"
  /\ UNCHANGED <<exitStatus, Mode, nCmds, userInput, filterFreed, cancelReq, InPipe, OutPipe,
                 eof, packetLength, nRead, outBuf, outPipe, iterVars,
                 cfgVars, maskVars, pktVars>>

\* the thread is between the loop test and the end of the pass
InPass == thPc \in {"readlen", "readpkt", "test1", "test2", "writelen", "writepkt", "flush"}

\* (mutant) the assignment to Mode is lost
SetMode_Lost(m) ==
  /\ Mode' = Mode
  /\ iterModes' = iterModes

\* Mode = m, as the thread's current pass sees it
SetMode(m) ==
  /\ Mode' = m
  /\ iterModes' = IF InPass THEN iterModes \cup {m} ELSE iterModes

\* scanf delivered userInput: the switch; case 0 up to pthread_cancel
main_Command ==
  /\ mainPc = "loop"
  /\ nCmds < MaxCmds
  /\ nCmds' = nCmds + 1
  /\ \E u \in Inputs :
       /\ userInput' = u
       /\ CASE u = 0 ->
                /\ cancelReq' = TRUE
                /\ mainPc' = "destroy"
                /\ UNCHANGED <<Mode, iterModes>>
           [] u = 1 ->
                SetMode("MODE_BLOCK_ALL") /\ UNCHANGED <<cancelReq, mainPc>>
           [] u = 2 ->
                SetMode("MODE_ALLOW_ALL") /\ UNCHANGED <<cancelReq, mainPc>>
           [] u = 3 ->
                SetMode("MODE_FILTER") /\ UNCHANGED <<cancelReq, mainPc>>
           [] OTHER ->
                UNCHANGED <<Mode, iterModes, cancelReq, mainPc>>
  /\ UNCHANGED <<exitStatus, filterFreed, thPc, InPipe, OutPipe, eof, packetLength,
                 nRead, outBuf, outPipe, readOk, iterOut, iterDone, inRec,
                 cfgVars, maskVars, pktVars>>

\* case 0, second statement: DestroyFilter(filter)
main_DestroyFilter ==
  /\ mainPc = "destroy"
  /\ filterFreed' = TRUE
  /\ mainPc' = "return"
  /\ UNCHANGED <<exitStatus, Mode, nCmds, userInput, thVars, iterVars, cfgVars, maskVars, pktVars>>

\* case 0, third statement: return EXIT_SUCCESS; the process exits, and exit
\* flushes what the open output stream still buffers
main_Return ==
  /\ mainPc = "return"
  /\ mainPc' = "exited"
  /\ exitStatus' = "EXIT_SUCCESS"
  /\ outPipe' = outPipe \o outBuf
  /\ outBuf' = <<>>
  /\ UNCHANGED <<Mode, nCmds, userInput, filterFreed, thPc, cancelReq, InPipe, OutPipe, eof,
                 packetLength, nRead, iterVars, cfgVars, maskVars, pktVars>>

\* ---- FilterThread ----

\* the thread exists and the process has not exited
Alive == mainPc # "exited"

\* OpenPipes: each fopen succeeds or fails; on failure the thread returns
FilterThread_OpenPipes ==
  /\ Alive
  /\ thPc = "open"
  /\ \/ InPipe' = "NULL" /\ OutPipe' = "NULL" /\ thPc' = "returned"
     \/ InPipe' = "open" /\ OutPipe' = "NULL" /\ thPc' = "returned"
     \/ InPipe' = "open" /\ OutPipe' = "open" /\ thPc' = "while"
  /\ UNCHANGED <<cancelReq, eof, packetLength, nRead, outBuf, outPipe, iterVars,
                 mainVars, cfgVars, maskVars, pktVars>>

\* (mutant) while(true): the end-of-file indicator is not tested
FilterThread_While_NoTest ==
  /\ Alive
  /\ thPc = "while"
  /\ thPc' = "readlen"
  /\ readOk' = FALSE
  /\ iterModes' = {Mode}
  /\ iterOut' = Len(outPipe)
  /\ iterDone' = FALSE
  /\ verdict' = "none"
  /\ UNCHANGED <<cancelReq, InPipe, OutPipe, eof, packetLength, nRead, outBuf, outPipe,
                 inRec, mainVars, cfgVars, maskVars, packet, nCalls>>

\* while(!feof(InPipe)): a new pass begins, or the thread returns NULL
FilterThread_While ==
  /\ Alive
  /\ thPc = "while"
  /\ IF eof
       THEN /\ thPc' = "returned"
            /\ UNCHANGED <<readOk, iterModes, iterOut, iterDone, verdict>>
       ELSE /\ thPc' = "readlen"
            /\ readOk' = FALSE
            /\ iterModes' = {Mode}
            /\ iterOut' = Len(outPipe)
            /\ iterDone' = FALSE
            /\ verdict' = "none"
  /\ UNCHANGED <<cancelReq, InPipe, OutPipe, eof, packetLength, nRead, outBuf, outPipe,
                 inRec, mainVars, cfgVars, maskVars, packet, nCalls>>

\* fread(&packetLength, sizeof(int), 1, InPipe): a length arrives, or the
\* stream is at its end and packetLength is left as it was declared
FilterThread_ReadLength ==
  /\ Alive
  /\ thPc = "readlen"
  /\ \/ /\ nRead < MaxRecords
        /\ packetLength' \in RecordLengths
        /\ readOk' = TRUE
        /\ eof' = eof
     \/ /\ packetLength' \in GarbageLengths
        /\ readOk' = FALSE
        /\ eof' = TRUE
  /\ thPc' = "readpkt"
  /\ UNCHANGED <<cancelReq, InPipe, OutPipe, nRead, outBuf, outPipe,
                 iterModes, iterOut, iterDone, inRec, mainVars, cfgVars, maskVars, pktVars>>

\* unsigned char packet[packetLength]; fread(packet, 1, packetLength, InPipe):
\* the payload arrives whole, or the stream ends and the array keeps bytes
\* no fread put there
FilterThread_ReadPacket ==
  /\ Alive
  /\ thPc = "readpkt"
  /\ \E pkt \in SysPackets :
       /\ packet' = pkt
       /\ \/ /\ readOk
             /\ <<packetLength, pkt>> \in SysRecords
             /\ nRead' = nRead + 1
             /\ inRec' = <<packetLength, pkt>>
             /\ UNCHANGED <<readOk, eof>>
          \/ /\ readOk' = FALSE
             /\ eof' = TRUE
             /\ UNCHANGED <<nRead, inRec>>
  /\ thPc' = "test1"
  /\ UNCHANGED <<cancelReq, InPipe, OutPipe, packetLength, outBuf, outPipe,
                 iterModes, iterOut, iterDone, mainVars, cfgVars, maskVars,
                 verdict, nCalls>>

\* (mutant) the left operand compares Mode with the wrong enumerator
FilterThread_TestAllowAll_WrongMode ==
  /\ Alive
  /\ thPc = "test1"
  /\ thPc' = IF Mode = "MODE_BLOCK_ALL" THEN "writelen" ELSE "test2"
  /\ UNCHANGED <<cancelReq, InPipe, OutPipe, eof, packetLength, nRead, outBuf, outPipe,
                 iterVars, mainVars, cfgVars, maskVars, pktVars>>

\* the left operand of ||: Mode == MODE_ALLOW_ALL
FilterThread_TestAllowAll ==
  /\ Alive
  /\ thPc = "test1"
  /\ thPc' = IF Mode = "MODE_ALLOW_ALL" THEN "writelen" ELSE "test2"
  /\ UNCHANGED <<cancelReq, InPipe, OutPipe, eof, packetLength, nRead, outBuf, outPipe,
                 iterVars, mainVars, cfgVars, maskVars, pktVars>>

\* the right operand: Mode == MODE_FILTER && FilterPacket(args, packet); a
\* call on a filter that DestroyFilter has freed may return either value
FilterThread_TestFilter ==
  /\ Alive
  /\ thPc = "test2"
  /\ IF Mode = "MODE_FILTER"
       THEN /\ verdict' \in IF filterFreed THEN {"allow", "block"}
                            ELSE {IF FilterPacket(fltCfg, packet) THEN "allow" ELSE "block"}
            /\ IF verdict' = "allow"
                 THEN thPc' = "writelen" /\ iterDone' = FALSE
                 ELSE thPc' = "while" /\ iterDone' = TRUE
       ELSE /\ verdict' = verdict
            /\ thPc' = "while"
            /\ iterDone' = TRUE
  /\ UNCHANGED <<cancelReq, InPipe, OutPipe, eof, packetLength, nRead, outBuf, outPipe,
                 readOk, iterModes, iterOut, inRec, mainVars, cfgVars, maskVars,
                 packet, nCalls>>

\* fwrite(&packetLength, sizeof(int), 1, OutPipe)
FilterThread_WriteLength ==
  /\ Alive
  /\ thPc = "writelen"
  /\ outBuf' = Append(outBuf, <<"len", packetLength>>)
  /\ thPc' = "writepkt"
  /\ UNCHANGED <<cancelReq, InPipe, OutPipe, eof, packetLength, nRead, outPipe,
                 iterVars, mainVars, cfgVars, maskVars, pktVars>>

\* (mutant) the second fwrite is given one byte less than was read
FilterThread_WritePacket_OneShort ==
  /\ Alive
  /\ thPc = "writepkt"
  /\ outBuf' = Append(outBuf, Payload(packet, packetLength - 1))
  /\ thPc' = "flush"
  /\ UNCHANGED <<cancelReq, InPipe, OutPipe, eof, packetLength, nRead, outPipe,
                 iterVars, mainVars, cfgVars, maskVars, pktVars>>

\* fwrite(packet, sizeof(char), packetLength, OutPipe)
FilterThread_WritePacket ==
  /\ Alive
  /\ thPc = "writepkt"
  /\ outBuf' = Append(outBuf, Payload(packet, packetLength))
  /\ thPc' = "flush"
  /\ UNCHANGED <<cancelReq, InPipe, OutPipe, eof, packetLength, nRead, outPipe,
                 iterVars, mainVars, cfgVars, maskVars, pktVars>>

\* (mutant) the pass ends without fflush
FilterThread_Flush_Omitted ==
  /\ Alive
  /\ thPc = "flush"
  /\ thPc' = "while"
  /\ iterDone' = TRUE
  /\ UNCHANGED <<cancelReq, InPipe, OutPipe, eof, packetLength, nRead, outBuf, outPipe,
                 readOk, iterModes, iterOut, inRec, mainVars, cfgVars, maskVars, pktVars>>

\* (mutant) what is flushed lands in front of what the pipe already holds
FilterThread_Flush_Prepends ==
  /\ Alive
  /\ thPc = "flush"
  /\ outPipe' = outBuf \o outPipe
  /\ outBuf' = <<>>
  /\ thPc' = "while"
  /\ iterDone' = TRUE
  /\ UNCHANGED <<cancelReq, InPipe, OutPipe, eof, packetLength, nRead,
                 readOk, iterModes, iterOut, inRec, mainVars, cfgVars, maskVars, pktVars>>

\* fflush(OutPipe); the pass ends
FilterThread_Flush ==
  /\ Alive
  /\ thPc = "flush"
  /\ outPipe' = outPipe \o outBuf
  /\ outBuf' = <<>>
  /\ thPc' = "while"
  /\ iterDone' = TRUE
  /\ UNCHANGED <<cancelReq, InPipe, OutPipe, eof, packetLength, nRead,
                 readOk, iterModes, iterOut, inRec, mainVars, cfgVars, maskVars, pktVars>>

\* a pending cancellation request is acted upon inside fopen, fread, fwrite
\* or fflush, each of which may be a cancellation point
FilterThread_Cancelled ==
  /\ Alive
  /\ cancelReq
  /\ thPc \in {"open", "readlen", "readpkt", "writelen", "writepkt", "flush"}
  /\ thPc' = "cancelled"
  /\ UNCHANGED <<cancelReq, InPipe, OutPipe, eof, packetLength, nRead, outBuf, outPipe,
                 iterVars, mainVars, cfgVars, maskVars, pktVars>>

ConfigureFilter == OpenFails \/ ReadLine \/ MaskPass \/ MaskStore \/ EndOfFile

Next ==
  \/ ConfigureFilter
  \/ main_Configured
  \/ main_CreateThread
  \/ main_Command
  \/ main_DestroyFilter
  \/ main_Return
  \/ FilterThread_OpenPipes
  \/ FilterThread_While
  \/ FilterThread_ReadLength
  \/ FilterThread_ReadPacket
  \/ FilterThread_TestAllowAll
  \/ FilterThread_TestFilter
  \/ FilterThread_WriteLength
  \/ FilterThread_WritePacket
  \/ FilterThread_Flush
  \/ FilterThread_Cancelled

Spec == Init /\ [][Next]_vars

\* a step of FilterThread
FilterThread ==
  \/ FilterThread_OpenPipes
  \/ FilterThread_While
  \/ FilterThread_ReadLength
  \/ FilterThread_ReadPacket
  \/ FilterThread_TestAllowAll
  \/ FilterThread_TestFilter
  \/ FilterThread_WriteLength
  \/ FilterThread_WritePacket
  \/ FilterThread_Flush
  \/ FilterThread_Cancelled

\* main is run with the configuration file that has all four directives
InitFair ==
  /\ Init
  /\ cfgFile = File(TRUE, <<L_Net, L_Ping, L_Port, L_Addr>>)

\* Specification SpecFair: main and FilterThread as in Spec, with FilterThread
\* scheduled fairly: while the thread can take a step it is not left waiting
\* for ever. Nothing is asked of main, which waits in scanf as long as the
\* user pleases.
NextFair ==
  \/ ReadLine
  \/ MaskPass
  \/ MaskStore
  \/ EndOfFile
  \/ main_Configured
  \/ main_CreateThread
  \/ main_Command
  \/ main_DestroyFilter
  \/ main_Return
  \/ FilterThread

SpecFair == InitFair /\ [][NextFair]_vars /\ WF_vars(FilterThread)

\* ------------------------------------------------------------------
\* What the rules say, stated bit by bit and entry by entry
\* ------------------------------------------------------------------
\* bit k of a 32-bit value, k = 0 the most significant
Bit(x, k) ==
  IF k < 16 THEN (x[1] \div (2 ^ (15 - k))) % 2
  ELSE (x[2] \div (2 ^ (31 - k))) % 2

\* a agrees with the local address on every bit the mask selects
OnLocalNet(cfg, a) ==
  \A k \in 0..31 : Bit(cfg.localMask, k) = 1 => Bit(a, k) = Bit(cfg.localIpAddr, k)

SrcOf(pkt) == ExtractSrcAddrFromIpHeader(pkt)
DstOf(pkt) == ExtractDstAddrFromIpHeader(pkt)

Inbound(cfg, pkt) == OnLocalNet(cfg, DstOf(pkt)) /\ ~OnLocalNet(cfg, SrcOf(pkt))

AddrBlocked(cfg, pkt) ==
  \E k \in DOMAIN cfg.blockedIpAddresses :
     cfg.blockedIpAddresses[k] \in {SrcOf(pkt), DstOf(pkt)}

PortBlocked(cfg, pkt) ==
  \E k \in DOMAIN cfg.blockedInboundTcpPorts :
     cfg.blockedInboundTcpPorts[k] = ExtractTcpDstPort(pkt)

Classified == verdict # "none"

\* C2: a packet whose source or destination address is an entry of
\* blockedIpAddresses is blocked, whatever its direction and protocol.
C2_AddressBlockOverrides ==
  (Classified /\ AddrBlocked(fltCfg, packet)) => verdict = "block"

\* an address-blocked packet that is not inbound (so nothing else could
\* have blocked it) and carries neither ICMP nor TCP has been blocked
C2_Witness ==
  /\ Classified
  /\ AddrBlocked(fltCfg, packet)
  /\ ~Inbound(fltCfg, packet)
  /\ ExtractIpProtocol(packet) \notin {IP_PROTOCOL_ICMP, IP_PROTOCOL_TCP}
  /\ verdict = "block"

\* C3: a packet that is not address-blocked and not inbound is allowed,
\* whatever its protocol, port, ICMP type and the echo-request flag.
C3_NotInboundAllowed ==
  (Classified /\ ~AddrBlocked(fltCfg, packet) /\ ~Inbound(fltCfg, packet))
     => verdict = "allow"

\* an outbound echo request is allowed although echo requests are blocked
C3_Witness ==
  /\ Classified
  /\ ~AddrBlocked(fltCfg, packet)
  /\ ~Inbound(fltCfg, packet)
  /\ fltCfg.localMask # Zero32
  /\ fltCfg.blockInboundEchoReq
  /\ ExtractIpProtocol(packet) = IP_PROTOCOL_ICMP
  /\ ExtractIcmpType(packet) = ICMP_TYPE_ECHO_REQ
  /\ verdict = "allow"

\* C4: an inbound TCP packet that is not address-blocked is blocked if and
\* only if its destination port is an entry of blockedInboundTcpPorts.
C4_InboundTcp ==
  ( /\ Classified
    /\ ~AddrBlocked(fltCfg, packet)
    /\ Inbound(fltCfg, packet)
    /\ ExtractIpProtocol(packet) = IP_PROTOCOL_TCP )
     => (verdict = "block" <=> PortBlocked(fltCfg, packet))

C4_Witness ==
  /\ Classified
  /\ ~AddrBlocked(fltCfg, packet)
  /\ Inbound(fltCfg, packet)
  /\ ExtractIpProtocol(packet) = IP_PROTOCOL_TCP
  /\ PortBlocked(fltCfg, packet)
  /\ verdict = "block"

\* C5: an inbound ICMP packet that is not address-blocked is blocked if and
\* only if blockInboundEchoReq is set and its type is Echo-Request.
C5_InboundIcmp ==
  ( /\ Classified
    /\ ~AddrBlocked(fltCfg, packet)
    /\ Inbound(fltCfg, packet)
    /\ ExtractIpProtocol(packet) = IP_PROTOCOL_ICMP )
     => (verdict = "block" <=>
           (fltCfg.blockInboundEchoReq /\ ExtractIcmpType(packet) = ICMP_TYPE_ECHO_REQ))

C5_Witness ==
  /\ Classified
  /\ ~AddrBlocked(fltCfg, packet)
  /\ Inbound(fltCfg, packet)
  /\ ExtractIpProtocol(packet) = IP_PROTOCOL_ICMP
  /\ fltCfg.blockInboundEchoReq
  /\ ExtractIcmpType(packet) = ICMP_TYPE_ECHO_REQ
  /\ verdict = "block"

\* C6: an inbound packet that is not address-blocked and whose protocol is
\* neither ICMP nor TCP is allowed, whatever the port list and the flag.
C6_InboundOtherProtocol ==
  ( /\ Classified
    /\ ~AddrBlocked(fltCfg, packet)
    /\ Inbound(fltCfg, packet)
    /\ ExtractIpProtocol(packet) \notin {IP_PROTOCOL_ICMP, IP_PROTOCOL_TCP} )
     => verdict = "allow"

\* such a packet is allowed although its bytes at the TCP port and ICMP type
\* offsets match a blocked port and Echo-Request, with both rules loaded
C6_Witness ==
  /\ Classified
  /\ ~AddrBlocked(fltCfg, packet)
  /\ Inbound(fltCfg, packet)
  /\ ExtractIpProtocol(packet) \notin {IP_PROTOCOL_ICMP, IP_PROTOCOL_TCP}
  /\ fltCfg.blockInboundEchoReq
  /\ PortBlocked(fltCfg, packet)
  /\ ExtractIcmpType(packet) = ICMP_TYPE_ECHO_REQ
  /\ verdict = "allow"

\* C7: for every prefix length p in 0..32 the mask stored in localMask has
\* exactly p leading one-bits followed by 32 - p zero-bits, within 32 bits.
C7_MaskHasPrefixOnes ==
  lnPc = "idle" =>
    /\ fltCfg.localMask[1] \in 0..65535
    /\ fltCfg.localMask[2] \in 0..65535
    /\ \A k \in 0..31 : Bit(fltCfg.localMask, k) = (IF k < temp THEN 1 ELSE 0)

\* a prefix length that crosses the two halves has been stored
C7_Witness ==
  /\ lnPc = "idle"
  /\ temp = 24
  /\ i = 24
  /\ fltCfg.localMask = <<65535, 65280>>

RecognisedLine(line) == line.kw = "" \/ line.kw \in Keywords

NoLocalNet(file) == \A k \in DOMAIN file.lines : file.lines[k].kw # "LOCAL_NET"

AllRecognised(file) == \A k \in DOMAIN file.lines : RecognisedLine(file.lines[k])

\* C8: on a file with no LOCAL_NET line ConfigureFilter returns false; when
\* every line is recognised it does so only after all lines were processed.
C8_MissingLocalNetFails ==
  (cfgFile.found /\ NoLocalNet(cfgFile) /\ cfgRet # "running") =>
    /\ cfgRet = "false"
    /\ AllRecognised(cfgFile) => cfgPos = Len(cfgFile.lines)

\* every line of a file without LOCAL_NET was loaded, and the load failed
C8_Witness ==
  /\ cfgFile.found
  /\ NoLocalNet(cfgFile)
  /\ AllRecognised(cfgFile)
  /\ Len(cfgFile.lines) >= 2
  /\ cfgPos = Len(cfgFile.lines)
  /\ fltCfg.numBlockedIpAddresses >= 1
  /\ fltCfg.blockInboundEchoReq
  /\ cfgRet = "false"

\* fgets is about to deliver an unrecognised line
NextLineUnrecognised ==
  /\ cfgRet = "running"
  /\ lnPc = "idle"
  /\ cfgFile.found
  /\ cfgPos < Len(cfgFile.lines)
  /\ ~RecognisedLine(cfgFile.lines[cfgPos + 1])

\* C9: the step that meets an unrecognised line returns false and leaves
\* the configuration as it was, and once ConfigureFilter has returned false
\* no further line is read and the configuration never changes.
C9_UnknownLineStopsLoad ==
  [][ /\ NextLineUnrecognised => (cfgRet' = "false" /\ fltCfg' = fltCfg)
      /\ cfgRet = "false" =>
            (cfgRet' = "false" /\ cfgPos' = cfgPos /\ fltCfg' = fltCfg) ]_vars

\* the load stopped at an unrecognised line that a BLOCK_PING_REQ line
\* follows, and the flag is not set
C9_Witness ==
  /\ cfgFile.found
  /\ cfgRet = "false"
  /\ cfgPos >= 1
  /\ cfgPos < Len(cfgFile.lines)
  /\ ~RecognisedLine(cfgFile.lines[cfgPos])
  /\ cfgFile.lines[cfgPos + 1].kw = "BLOCK_PING_REQ"
  /\ ~fltCfg.blockInboundEchoReq
  /\ Classified

\* the pass that just ended put the record it read, and nothing else, into
\* the output pipe
Forwarded ==
  /\ Len(outPipe) = iterOut + 2
  /\ outPipe[iterOut + 1] = <<"len", packetLength>>
  /\ outPipe[iterOut + 2] = Payload(packet, packetLength)

\* the pass that just ended put nothing into the output pipe
Dropped == Len(outPipe) = iterOut

\* a pass has ended, its record was read completely, and Mode held the one
\* value m from the loop test to the end of the pass
PassEndedUnder(m) ==
  /\ thPc = "while"
  /\ iterDone
  /\ readOk
  /\ iterModes = {m}

\* C1: for a record read completely in a pass during which Mode did not
\* change: under BlockAll it is not written, under AllowAll it is written,
\* under Filter it is written if and only if FilterPacket allowed it.
C1_ModeGate ==
  /\ PassEndedUnder("MODE_BLOCK_ALL") => Dropped
  /\ PassEndedUnder("MODE_ALLOW_ALL") => Forwarded
  /\ PassEndedUnder("MODE_FILTER") =>
        /\ verdict # "none"
        /\ Forwarded <=> verdict = "allow"
        /\ Dropped <=> verdict = "block"
        /\ ~filterFreed => (verdict = "allow" <=> FilterPacket(fltCfg, packet))

\* under AllowAll a record whose source address is in blockedIpAddresses has
\* been written to the output
C1_Witness ==
  /\ PassEndedUnder("MODE_ALLOW_ALL")
  /\ cfgRet = "true"
  /\ AddrBlocked(fltCfg, packet)
  /\ Forwarded

\* C10: when ConfigureFilter has returned false no thread is created, no
\* packet is classified, and the process does not exit with success.
C10_FailedLoadStopsMain ==
  cfgRet = "false" =>
    /\ thPc = "notcreated"
    /\ verdict = "none"
    /\ exitStatus # "EXIT_SUCCESS"

\* ------------------------------------------------------------------
\* The dispatcher's records
\* ------------------------------------------------------------------
\* the thread has both freads of the current pass behind it
PastRead == thPc \in {"test1", "test2", "writelen", "writepkt", "flush"}

\* the current pass has run to its end and the next has not begun
PassEnded == thPc = "while" /\ iterDone

\* what the current pass has handed to fwrite, flushed or not
WrittenThisPass ==
  LET all == outPipe \o outBuf
  IN  SubSeq(all, iterOut + 1, Len(all))

\* the record the input pipe delivered last, as writing it whole gives it
RecordAsRead == << <<"len", inRec[1]>>, Payload(inRec[2], inRec[1]) >>

\* C11: once a record has been read completely, the length and the payload
\* that FilterThread holds and whatever it writes in that pass are the length
\* and the payload bytes the input pipe delivered, in that order; a pass that
\* forwards leaves exactly that record in the output pipe.
C11_ForwardedUnaltered ==
  ((PastRead \/ PassEnded) /\ readOk) =>
    /\ packetLength = inRec[1]
    /\ packet = inRec[2]
    /\ Len(WrittenThisPass) <= 2
    /\ WrittenThisPass = SubSeq(RecordAsRead, 1, Len(WrittenThisPass))
    /\ (PassEnded /\ Len(outPipe) > iterOut) =>
          SubSeq(outPipe, iterOut + 1, Len(outPipe)) = RecordAsRead

\* a record that FilterPacket classified and allowed stands in the output
\* pipe as it was read
C11_Witness ==
  /\ PassEnded
  /\ readOk
  /\ verdict = "allow"
  /\ cfgRet = "true"
  /\ inRec[1] = PktLen
  /\ Len(outPipe) = iterOut + 2
  /\ outPipe[iterOut + 1] = <<"len", PktLen>>
  /\ outPipe[iterOut + 2] = <<"pkt", PktLen, inRec[2]>>

\* C12: a record whose length prefix exceeds the capacity of 2048 is
\* rejected: the pass that read the prefix does not classify the record and
\* writes nothing.
C12_OversizedRejected ==
  ((PastRead \/ PassEnded) /\ packetLength > Capacity) =>
    /\ verdict = "none"
    /\ WrittenThisPass = <<>>

\* q is a sequence of whole records: every length prefix is followed by a
\* payload of that many bytes
WellFramed(q) ==
  /\ Len(q) % 2 = 0
  /\ \A k \in 1..Len(q) :
       k % 2 = 1 => /\ q[k][1] = "len"
                    /\ q[k + 1][1] = "pkt"
                    /\ q[k + 1][2] = q[k][2]

\* C13: while FilterThread is at the loop test, reading a record or testing
\* Mode, nothing it wrote waits unflushed and the output pipe holds whole
\* records only.
C13_FlushedBeforeNextRead ==
  thPc \in {"while", "readlen", "readpkt", "test1", "test2"} =>
    /\ outBuf = <<>>
    /\ WellFramed(outPipe)

\* the thread reads the second record while the first, which it forwarded,
\* stands whole in the output pipe
C13_Witness ==
  /\ thPc = "readpkt"
  /\ readOk
  /\ nRead = 1
  /\ iterOut = 2
  /\ outPipe = RecordAsRead
  /\ outBuf = <<>>

\* C14: when FilterThread has been cancelled, and when the process has
\* exited, every length prefix FilterThread wrote is followed by its payload.
C14_WriteCompletedBeforeStop ==
  /\ thPc = "cancelled" => WellFramed(outPipe \o outBuf)
  /\ mainPc = "exited" => WellFramed(outPipe)

\* a step in which FilterThread reads InPipe, writes OutPipe, or calls
\* FilterPacket
DispatcherTouches ==
  \/ /\ thPc \in {"readlen", "readpkt", "writelen", "writepkt", "flush"}
     /\ thPc' \notin {thPc, "cancelled"}
  \/ /\ thPc = "test2"
     /\ Mode = "MODE_FILTER"
     /\ thPc' # thPc

\* C15: once DestroyFilter has run FilterThread takes no step that reads
\* InPipe, writes OutPipe or calls FilterPacket, and the process exits only
\* when FilterThread has returned or has been cancelled.
C15_DestroyAfterDispatcherStopped ==
  [][ /\ filterFreed => ~DispatcherTouches
      /\ (mainPc # "exited" /\ mainPc' = "exited") =>
            thPc \in {"returned", "cancelled"} ]_vars

\* FilterThread returned because OpenPipes failed
OpenFailed == thPc = "returned" /\ (InPipe = "NULL" \/ OutPipe = "NULL")

\* C16: once OpenPipes has failed main changes Mode no more, and the next
\* command it takes, if any, ends the command loop.
C16_OpenFailureStopsMain ==
  [][ OpenFailed => /\ Mode' = Mode
                    /\ nCmds' # nCmds => mainPc' # "loop" ]_vars

\* the mode that command u selects
ModeOf(u) ==
  CASE u = 1 -> "MODE_BLOCK_ALL"
    [] u = 2 -> "MODE_ALLOW_ALL"
    [] u = 3 -> "MODE_FILTER"

\* C17: Mode is MODE_FILTER at startup; a command 1, 2 or 3 sets Mode to the
\* mode it selects and nothing else changes Mode; a command other than 0, 1,
\* 2, 3 leaves Mode, the command loop and FilterThread as they were.
C17_ModeFollowsCommands ==
  /\ Mode = "MODE_FILTER"
  /\ [][ IF nCmds' # nCmds
           THEN CASE userInput' \in 1..3 ->
                       /\ Mode' = ModeOf(userInput')
                       /\ mainPc' = "loop"
                       /\ cancelReq' = cancelReq
                  [] userInput' = 0 -> Mode' = Mode
                  [] OTHER ->
                       /\ Mode' = Mode
                       /\ mainPc = "loop" /\ mainPc' = "loop"
                       /\ cancelReq' = cancelReq
                       /\ thPc' = thPc
           ELSE Mode' = Mode ]_vars

\* after command 2 and then a number that is no command, Mode is still
\* MODE_ALLOW_ALL, main is in its loop and FilterThread is in a pass
C17_Witness ==
  /\ nCmds = 2
  /\ userInput = 4
  /\ Mode = "MODE_ALLOW_ALL"
  /\ mainPc = "loop"
  /\ ~cancelReq
  /\ InPass

Dictates(m) ==
  IF m = "MODE_ALLOW_ALL" \/ (m = "MODE_FILTER" /\ FilterPacket(fltCfg, packet))
    THEN Forwarded
    ELSE Dropped

\* C19: a pass that read its record completely has done with it what one of
\* the values that Mode held during the pass dictates.
C19_DecisionBySingleMode ==
  (PassEnded /\ readOk /\ ~filterFreed) => \E m \in iterModes : Dictates(m)

\* the number of payloads FilterThread has written
RecordsWritten ==
  LET all == outPipe \o outBuf
  IN  Cardinality({k \in 1..Len(all) : all[k][1] = "pkt"})

\* C20: FilterThread has written no more records than it has read completely,
\* and a pass one of whose freads fell short classifies nothing and writes
\* nothing.
C20_CleanEndOfInput ==
  /\ RecordsWritten <= nRead
  /\ ((PastRead \/ PassEnded) /\ ~readOk) =>
        /\ verdict = "none"
        /\ WrittenThisPass = <<>>

\* C21: a file of recognised lines that has a LOCAL_NET line loads with
\* success, whatever address the line names.
C21_LocalNetAnyAddress ==
  (cfgFile.found /\ AllRecognised(cfgFile) /\ ~NoLocalNet(cfgFile)
     /\ cfgRet # "running") => cfgRet = "true"

\* C22: when FilterThread has returned or has been cancelled, neither pipe
\* is an open stream.
C22_StreamsClosedOnStop ==
  thPc \in {"returned", "cancelled"} => (InPipe # "open" /\ OutPipe # "open")

\* everything FilterThread has handed to fwrite, in the order it did
Output == outPipe \o outBuf

\* C24: the output only grows at its end; what a pass with a completely read
\* record adds is, item by item, the record read last; and a record is read
\* only when the pass before has run to its end and nothing waits unflushed.
C24_OrderPreserved ==
  [][ /\ Len(Output') >= Len(Output)
      /\ SubSeq(Output', 1, Len(Output)) = Output
      /\ (Output' # Output /\ readOk) =>
            /\ nRead' = nRead
            /\ Len(Output') = Len(Output) + 1
            /\ Len(Output') - iterOut \in {1, 2}
            /\ Output'[Len(Output')] = RecordAsRead[Len(Output') - iterOut]
      /\ nRead' # nRead =>
            /\ outBuf = <<>>
            /\ Len(outPipe) = iterOut
            /\ ~iterDone ]_vars

\* two different records were read and forwarded, and the pipe holds them
\* in the order they were read
C24_Witness ==
  /\ PassEnded
  /\ readOk
  /\ nRead = 2
  /\ Len(outPipe) = 4
  /\ iterOut = 2
  /\ WellFramed(outPipe)
  /\ SubSeq(outPipe, 3, 4) = RecordAsRead
  /\ outPipe[2] # outPipe[4]

\* C23: once the end-of-file indicator of InPipe is set, FilterThread
\* eventually has left its loop (it has returned or has been cancelled) or
\* the process has exited, whatever Mode is and whatever main does meanwhile.
C23_LoopEndsAfterEof ==
  eof ~> (thPc \in {"returned", "cancelled"} \/ mainPc = "exited")

\* FilterThread has returned after the end of input, from a loop during
\* which main changed Mode
C23_Witness ==
  /\ eof
  /\ thPc = "returned"
  /\ InPipe = "open"
  /\ OutPipe = "open"
  /\ nCmds >= 1
  /\ Mode # "MODE_FILTER"
  /\ mainPc = "loop"

====
